---- MODULE Spec2Model ----
(***************************************************************************)
(* Model of the Logger client (src/logger/__init__.py): a file is cut into *)
(* 8-byte words and pages, every page is registered on the Logger contract *)
(* (the ledger), the page indices are aggregated pairwise into one Merkle  *)
(* root, and a root is resolved back to bytes from the contract's event    *)
(* log.                                                                    *)
(*                                                                         *)
(* Bytes are naturals 0..255, a word is a sequence of 8 bytes, and a hash  *)
(* is a sequence of naturals: keccak-256 is modelled as a collision-free   *)
(* injective encoding of its input (a tag followed by the input).          *)
(***************************************************************************)
EXTENDS Integers, Sequences, FiniteSets, TLC

\* ------------------------------------------------------------------------
\* Bounds of the model
\* ------------------------------------------------------------------------
\* largest page_log2_size / tree_log2_size given to instantiate
MaxPageLog2 == 4
MaxTreeLog2 == 5
\* longest input file, counted in whole words (a short tail may follow)
MaxFileWords == 4
\* operations of one session: of each kind, and in all
MaxSubmits == 2
MaxDownloads == 2
MaxOps == 3
\* depth at which the interpreter of the recursion stops (RecursionError)
MaxDepth == 6
\* SpecLog: the largest index and the number of events of a log
MaxLogIndex == 1
MaxLogEvents == 2

\* hashes handed to one call of calculate_root_from_hashes
MaxHashes == 4

\* calls of the hashing functions in one run
MaxHashCalls == 1

\* block steps the loop of __get_all_contract_logs is also run with
MaxBlockStep == 3

\* ------------------------------------------------------------------------
\* Program constants
\* ------------------------------------------------------------------------
log2_bytes_of_word == 3
bytes_of_word == 8
block_step == 1000000
\* b'0': the ASCII digit zero
AsciiZero == 48
\* bytes(n): the byte 0x00
NulByte == 0

\* ------------------------------------------------------------------------
\* Small helpers
\* ------------------------------------------------------------------------
Pow2(n) == 2 ^ n

Min(a, b) == IF a < b THEN a ELSE b

Max(a, b) == IF a < b THEN b ELSE a

\* n copies of x (n <= 0 gives the empty sequence, as range(n) does)
Repeat(x, n) == [i \in 1..n |-> x]

\* math.log2 of a power of two
RECURSIVE Log2(_)
Log2(n) == IF n <= 1 THEN 0 ELSE 1 + Log2(n \div 2)

RECURSIVE Flatten(_)
Flatten(ss) == IF ss = <<>> THEN <<>> ELSE Head(ss) \o Flatten(Tail(ss))

\* extend a function by one entry (dict assignment)
Put(f, k, v) == [x \in (DOMAIN f) \cup {k} |-> IF x = k THEN v ELSE f[x]]

EmptyMap == [x \in {} |-> 0]

\* ------------------------------------------------------------------------
\* Hashing
\* ------------------------------------------------------------------------
\* bytes(32), the initial value of root in submit_file
ZeroRoot == <<0>>

\* a 32-byte value that is the hash of nothing
UnknownRoot == <<3>>

\* keccak_256 of the bytes of one word
KeccakWord(w) == <<1>> \o w

\* keccak_256 of left + right
\* a hash of the pair that does not tell left from right
KeccakPair_unordered(left, right) ==
  <<2>> \o [i \in 1..Len(left) |-> left[i] + right[i]]

KeccakPair(left, right) == <<2>> \o left \o right

\* a pass that hashes right + left
PairPass_swapped(hashes) ==
  [i \in 1..(Len(hashes) \div 2) |-> KeccakPair(hashes[2 * i], hashes[2 * i - 1])]

\* one pass of calculate_root_from_hashes: floor(len/2) pairs, in order
PairPass(hashes) ==
  [i \in 1..(Len(hashes) \div 2) |-> KeccakPair(hashes[2 * i - 1], hashes[2 * i])]

\* calculate_root_from_hashes; hashes[0] of an empty list raises IndexError,
\* shown as the empty sequence
RECURSIVE calculate_root_from_hashes(_)
calculate_root_from_hashes(hashes) ==
  IF Len(hashes) > 1 THEN calculate_root_from_hashes(PairPass(hashes))
  ELSE IF Len(hashes) = 1 THEN hashes[1]
  ELSE <<>>

\* the number of passes of the while loop of calculate_root_from_hashes
RECURSIVE Passes(_)
Passes(hashes) ==
  IF Len(hashes) > 1 THEN 1 + Passes(PairPass(hashes)) ELSE 0

ZeroWord == Repeat(NulByte, bytes_of_word)

\* padded_data[x] += b'0' * (bytes_of_word - len(padded_data[x]))
PadWordLocal(w) == w \o Repeat(AsciiZero, bytes_of_word - Len(w))

\* the root submit_data_to_logger computes locally for a page
LocalPageRoot(data, page_log2) ==
  LET nwords == Pow2(page_log2) \div bytes_of_word
      padded_data == data \o Repeat(ZeroWord, nwords - Len(data))
  IN  calculate_root_from_hashes(
        [x \in 1..nwords |-> KeccakWord(PadWordLocal(padded_data[x]))])

\* ------------------------------------------------------------------------
\* The Logger contract (the ledger)
\* ------------------------------------------------------------------------
\* a bytes8 argument: the ABI encoding right-pads short values with 0x00
AbiBytes8(w) == w \o Repeat(NulByte, bytes_of_word - Len(w))

\* the root the contract computes for the words of a page
LedgerPageRoot(data, log2Size) ==
  LET nwords == Pow2(log2Size - log2_bytes_of_word)
      words == [i \in 1..Len(data) |-> AbiBytes8(data[i])]
      padded == words \o Repeat(ZeroWord, nwords - Len(words))
  IN  calculate_root_from_hashes([x \in 1..nwords |-> KeccakWord(padded[x])])

\* hist is the contract's history, a sequence of [root, log2Size]; the index
\* of an entry is its position counted from 0
isLogAvailable(hist, root, log2Size) ==
  \E i \in 1..Len(hist) : hist[i].root = root /\ hist[i].log2Size = log2Size

HasRoot(hist, root) == \E i \in 1..Len(hist) : hist[i].root = root

getLogIndex(hist, root) ==
  (CHOOSE i \in 1..Len(hist) : hist[i].root = root) - 1

getLogRoot(hist, index) == hist[index + 1].root

\* registering a root: a root already in the history keeps its index
Register(hist, root, log2Size) ==
  IF HasRoot(hist, root) THEN hist
  ELSE Append(hist, [root |-> root, log2Size |-> log2Size])

\* what either transaction does to the contract, mined in a new block: the
\* root is registered and the event of its kind is emitted
LedgerEmit(w, kind, root, log2Size, data, indices) ==
  LET hist2 == Register(w.hist, root, log2Size)
  IN  [w EXCEPT !.hist = hist2,
                !.chain = Append(@, [kind |-> kind,
                                     index |-> getLogIndex(hist2, root),
                                     root |-> root, log2Size |-> log2Size,
                                     data |-> data, indices |-> indices,
                                     block |-> w.head + 1]),
                !.head = @ + 1]

\* contract calculateMerkleRootFromData(log2Size, data): the root is computed
\* by the contract and the event carries the words as decoded bytes8 values
LedgerFromData(w, log2Size, data) ==
  LedgerEmit(w, "MerkleRootCalculatedFromData", LedgerPageRoot(data, log2Size),
             log2Size, [i \in 1..Len(data) |-> AbiBytes8(data[i])], <<>>)

\* contract calculateMerkleRootFromHistory(log2Size, indices): the roots at
\* the indices are combined pairwise, in the given order
LedgerFromHistory(w, log2Size, indices) ==
  LedgerEmit(w, "MerkleRootCalculatedFromHistory",
             calculate_root_from_hashes(
               [i \in 1..Len(indices) |-> getLogRoot(w.hist, indices[i])]),
             log2Size + Log2(Len(indices)), <<>>, indices)

\* ------------------------------------------------------------------------
\* The client: submission
\* ------------------------------------------------------------------------
\* A world w holds the contract (hist, chain, head), the Logger object's
\* fields and, for the operation in progress, the ledger calls it has made
\* (calls), the pair steps of its aggregation loop (steps), the number of
\* transactions it has sent (sent), the one the ledger rejects (failAt) and
\* the children a recovery found no event or no data for (miss) and the
\* deepest nesting of recover_data_from_root calls it reached (deep).

\* one entry of calls: a call of the contract (isLogAvailable, or one of the
\* two transactions with ok = FALSE when it is rejected), or the "return" of
\* a submit_*_to_logger call with the (index, root) it hands back; inv
\* numbers the submit_*_to_logger invocation the entry belongs to
Call(op, inv, root, log2Size, ans, data, indices, ok, index) ==
  [op |-> op, inv |-> inv, root |-> root, log2Size |-> log2Size, ans |-> ans,
   data |-> data, indices |-> indices, ok |-> ok, index |-> index]

Returned(inv, index, root) ==
  Call("return", inv, root, 0, FALSE, <<>>, <<>>, TRUE, index)

\* what a submit_*_to_logger call hands back; ok = FALSE is the None that
\* follows the caught ValueError
Ret(w, ok, index, root) == [w |-> w, ok |-> ok, index |-> index, root |-> root]

\* the receipt of a mined transaction: the (index, root) of the event it
\* emitted, the last of the chain w2
processReceipt(w2, op, log2Size, data, indices) ==
  LET ev == w2.chain[Len(w2.chain)]
  IN  Ret([w2 EXCEPT !.sent = @ + 1,
             !.calls = @ \o <<Call(op, w2.inv, ev.root, log2Size, FALSE,
                                   data, indices, TRUE, ev.index),
                              Returned(w2.inv, ev.index, ev.root)>>],
          TRUE, ev.index, ev.root)

\* __send_txn_to_logger: a receipt with status 0 raises ValueError, else the
\* (index, root) of the first event of the receipt is returned
send_txn_to_logger(w, isData, log2Size, payload) ==
  LET op == IF isData THEN "calculateMerkleRootFromData"
            ELSE "calculateMerkleRootFromHistory"
      data == IF isData THEN payload ELSE <<>>
      indices == IF isData THEN <<>> ELSE payload
  IN  IF w.sent + 1 = w.failAt
      THEN Ret([w EXCEPT !.sent = @ + 1, !.head = @ + 1,
                  !.calls = Append(@, Call(op, w.inv, <<>>, log2Size, FALSE,
                                           data, indices, FALSE, 0))],
               FALSE, 0, <<>>)
      ELSE processReceipt(IF isData THEN LedgerFromData(w, log2Size, payload)
                          ELSE LedgerFromHistory(w, log2Size, payload),
                          op, log2Size, data, indices)

\* __get_index_from_root: (exists, index), with the query in calls
get_index_from_root(w, root, log2_size) ==
  LET exists == isLogAvailable(w.hist, root, log2_size)
  IN  [w |-> [w EXCEPT !.calls = Append(@, Call("isLogAvailable", w.inv, root,
                                               log2_size, exists, <<>>, <<>>,
                                               TRUE, 0))],
       exists |-> exists,
       index |-> IF exists THEN getLogIndex(w.hist, root) ELSE 0]

\* "if(exists): return (index, root)", else the transaction; q is what
\* __get_index_from_root answered for root
SubmitUnlessExists(q, root, isData, log2Size, payload) ==
  IF q.exists
  THEN Ret([q.w EXCEPT !.calls = Append(@, Returned(q.w.inv, q.index, root))],
           TRUE, q.index, root)
  ELSE send_txn_to_logger(q.w, isData, log2Size, payload)

\* the part the two submit_*_to_logger share: the query for the locally
\* computed root at size, then the transaction when it is not registered
QueryThenSubmit(w, root, size, isData, log2Size, payload) ==
  SubmitUnlessExists(get_index_from_root(w, root, size), root, isData,
                     log2Size, payload)

\* submit_data_to_logger that sends the page without asking the ledger first
submit_data_to_logger_unqueried(w0, data) ==
  send_txn_to_logger([w0 EXCEPT !.inv = @ + 1], TRUE, w0.page_log2, data)

\* submit_data_to_logger: the local root, the query, then the transaction
\* with the words as read if the root is not registered
submit_data_to_logger(w0, data) ==
  QueryThenSubmit([w0 EXCEPT !.inv = @ + 1],
                  LocalPageRoot(data, w0.page_log2), w0.page_log2,
                  TRUE, w0.page_log2, data)

\* submit_indices_to_logger that hands the indices to the ledger in reverse
\* order
submit_indices_to_logger_reversed(w0, log2_size, indices) ==
  QueryThenSubmit([w0 EXCEPT !.inv = @ + 1],
                  calculate_root_from_hashes(
                    [i \in 1..Len(indices) |->
                       getLogRoot(w0.hist, indices[Len(indices) + 1 - i])]),
                  log2_size + Log2(Len(indices)), FALSE, log2_size,
                  [i \in 1..Len(indices) |-> indices[Len(indices) + 1 - i]])

\* submit_indices_to_logger: the root of the roots at the indices, the
\* query at log2_size + log2(len(indices)), then the transaction
submit_indices_to_logger(w0, log2_size, indices) ==
  QueryThenSubmit([w0 EXCEPT !.inv = @ + 1],
                  calculate_root_from_hashes(
                    [i \in 1..Len(indices) |-> getLogRoot(w0.hist, indices[i])]),
                  log2_size + Log2(Len(indices)), FALSE, log2_size, indices)

total_pages(w) == Pow2(w.tree_log2 - w.page_log2)

\* int(count * (1 / d * 100)) for scale = 100 and int(count * (1 / d * 100) / 2)
\* for scale = 50, in double precision: 1/d*100 is exact when d is a power of
\* two; among the d = 2^n - 1 of the model only d = 3 rounds, 1/3*100 lying
\* just below 100/3, so that a positive multiple of 3 lands one below
FloatInt(count, d, scale) ==
  ((count * scale) \div d)
    - (IF d = 3 /\ count > 0 /\ count % 3 = 0 THEN 1 ELSE 0)

\* int(progress_per_page/2 * (total_pages - count))
PageProgress(w, count) ==
  FloatInt(total_pages(w) - count, Max(1, total_pages(w)), 50)

\* 50 + int(count * progress_per_pair/2)
PairProgress(w, count) ==
  50 + FloatInt(count, Max(1, total_pages(w) - 1), 50)

\* the locals of submit_file; ok = FALSE once a submit call has returned None
\* and the unpacking of its result has raised TypeError; leaves keeps the
\* indices the leaf phase ended with and passes the indices each pass of the
\* while loop started with
Locals(w) ==
  [w |-> w, data |-> <<>>, indices |-> <<>>, new_indices |-> <<>>,
   root |-> ZeroRoot, count |-> total_pages(w), level |-> w.page_log2,
   ok |-> TRUE, leaves |-> <<>>, passes |-> <<>>]

\* a complete page after "(index, root) = self.submit_data_to_logger(data)"
\* has handed back r
LeafSubmitted(l, data, r) ==
  IF r.ok
  THEN [l EXCEPT
          !.w = [r.w EXCEPT !.blob = Put(@, data, r.index),
                            !.sprog = PageProgress(l.w, l.count - 1)],
          !.indices = Append(@, r.index), !.root = r.root,
          !.data = <<>>, !.count = @ - 1]
  ELSE [l EXCEPT !.w = r.w, !.ok = FALSE]

\* body of "for b in self.__bytes_from_file(filename)"
LeafStep(l, b) ==
  LET data == Append(l.data, b)
  IN  IF Len(data) * bytes_of_word = Pow2(l.w.page_log2)
      THEN IF data \in DOMAIN l.w.blob
           THEN [l EXCEPT !.indices = Append(@, l.w.blob[data]),
                          !.data = <<>>, !.count = @ - 1,
                          !.w.sprog = PageProgress(l.w, l.count - 1)]
           ELSE LeafSubmitted(l, data, submit_data_to_logger(l.w, data))
      ELSE [l EXCEPT !.data = data]

RECURSIVE LeafLoop(_, _)
LeafLoop(l, chunks) ==
  IF chunks = <<>> \/ ~l.ok THEN l
  ELSE LeafLoop(LeafStep(l, Head(chunks)), Tail(chunks))

\* the incomplete page after submit_data_to_logger has handed back r
TailSubmitted(l, r) ==
  IF r.ok
  THEN [l EXCEPT
          !.w = [r.w EXCEPT !.sprog = PageProgress(l.w, l.count - 1)],
          !.indices = Append(@, r.index), !.root = r.root, !.count = @ - 1]
  ELSE [l EXCEPT !.w = r.w, !.ok = FALSE]

\* "if(len(data) != 0)": the page left incomplete at the end of the file
TailPage(l) ==
  IF l.ok /\ l.data # <<>>
  THEN TailSubmitted(l, submit_data_to_logger(l.w, l.data))
  ELSE l

\* the all-zero page after submit_data_to_logger has handed back r
ZeroSubmitted(l, r) ==
  IF r.ok
  THEN [l EXCEPT
          !.w = [r.w EXCEPT !.sprog = PageProgress(l.w, 0)],
          !.indices = @ \o Repeat(r.index, l.count), !.root = r.root,
          !.count = 0]
  ELSE [l EXCEPT !.w = r.w, !.ok = FALSE]

\* "if(count > 0)": one all-zero page, its index repeated up to the capacity
ZeroPages(l) ==
  IF l.ok /\ l.count > 0
  THEN ZeroSubmitted(l, submit_data_to_logger(l.w, <<ZeroWord>>))
  ELSE l

\* one entry of steps: the pair, where its index came from, the index, and
\* the index_log2_size of the pass
Step(partial, src, index, level) ==
  [pair |-> partial, src |-> src, index |-> index, level |-> level]

\* the pair after "(index, root) = self.submit_indices_to_logger(...)" has
\* handed back r
PairSubmitted(a, partial_indices, r) ==
  IF r.ok
  THEN [a EXCEPT
          !.w = [r.w EXCEPT
                   !.pair = Put(@, partial_indices, r.index),
                   !.steps = Append(@, Step(partial_indices, "call", r.index,
                                           a.level)),
                   !.sprog = PairProgress(a.w, a.count + 1)],
          !.indices = SubSeq(a.indices, 3, Len(a.indices)),
          !.new_indices = Append(@, r.index),
          !.root = r.root, !.count = @ + 1]
  ELSE [a EXCEPT !.w = r.w, !.ok = FALSE]

\* the pair step without the lookup in submission_index_cache
PairStep_uncached(a) ==
  PairSubmitted(a, <<a.indices[1], a.indices[2]>>,
                submit_indices_to_logger(a.w, a.level,
                                         <<a.indices[1], a.indices[2]>>))

\* body of "for x in range(int(len(indices) / 2))"
PairStep(a) ==
  LET partial_indices == <<a.indices[1], a.indices[2]>>
  IN  IF partial_indices \in DOMAIN a.w.pair
      THEN [a EXCEPT
              !.w = [a.w EXCEPT
                       !.steps = Append(@, Step(partial_indices, "cache",
                                                a.w.pair[partial_indices],
                                                a.level)),
                       !.sprog = PairProgress(a.w, a.count + 1)],
              !.indices = SubSeq(a.indices, 3, Len(a.indices)),
              !.new_indices = Append(@, a.w.pair[partial_indices]),
              !.count = @ + 1]
      ELSE PairSubmitted(a, partial_indices,
                         submit_indices_to_logger(a.w, a.level,
                                                  partial_indices))

RECURSIVE PairLoop(_, _)
PairLoop(a, n) == IF n = 0 \/ ~a.ok THEN a ELSE PairLoop(PairStep(a), n - 1)

\* "indices = new_indices; level += 1" at the end of a pass of the while loop
LevelDone(b) ==
  IF b.ok THEN [b EXCEPT !.indices = b.new_indices, !.level = @ + 1] ELSE b

\* "while(len(indices) > 1)"
RECURSIVE AggLoop(_)
AggLoop(a) ==
  IF a.ok /\ Len(a.indices) > 1
  THEN AggLoop(LevelDone(PairLoop([a EXCEPT !.new_indices = <<>>,
                                            !.passes = Append(@, a.indices)],
                                  Len(a.indices) \div 2)))
  ELSE a

\* __bytes_from_file: reads of bytes_of_word bytes until an empty read
RECURSIVE bytes_from_file(_)
bytes_from_file(F) ==
  IF F = <<>> THEN <<>>
  ELSE <<SubSeq(F, 1, Min(bytes_of_word, Len(F)))>>
         \o bytes_from_file(SubSeq(F, bytes_of_word + 1, Len(F)))

\* "self.submission_progress = 50; count = 0" between the two phases
LeavesDone(l) ==
  IF l.ok THEN [l EXCEPT !.w.sprog = 50, !.count = 0, !.leaves = l.indices]
  ELSE l

\* submit_file: the leaf phase, "submission_progress = 50", the aggregation
\* loop; the result holds the world and the returned root
submit_file(w, F) ==
  AggLoop(LeavesDone(ZeroPages(TailPage(LeafLoop(Locals(w),
                                                 bytes_from_file(F))))))

\* ------------------------------------------------------------------------
\* The client: recovery
\* ------------------------------------------------------------------------
total_nodes(w) == total_pages(w) * 2 - 1

\* __update_download_progress
update_download_progress(w) ==
  [w EXCEPT !.rcount = @ + 1,
            !.dprog = FloatInt(w.rcount + 1, total_nodes(w), 100)]

\* eth.getLogs of the contract for the blocks from_block..to_block
getLogs(chain, from_block, to_block) ==
  SelectSeq(chain, LAMBDA e : from_block <= e.block /\ e.block <= to_block)

\* the while loop of __get_all_contract_logs, for a block step of step
RECURSIVE FetchLoopBy(_, _, _, _)
FetchLoopBy(w, from_block, block_number, step) ==
  IF from_block <= block_number
  THEN LET to_block == Min(from_block + step - 1, block_number)
       IN  FetchLoopBy([w EXCEPT
                          !.logs = @ \o getLogs(w.chain, from_block, to_block),
                          !.next = to_block + 1],
                       from_block + step, block_number, step)
  ELSE w

\* the while loop with self.__block_step
FetchLoop(w, from_block, block_number) ==
  FetchLoopBy(w, from_block, block_number, block_step)

\* __get_all_contract_logs that fetches from block 0 at every call
get_all_contract_logs_from_zero(w) == FetchLoop(w, 0, w.head)

\* __get_all_contract_logs: from next_block_number to the head of the chain
get_all_contract_logs(w) == FetchLoop(w, w.next, w.head)

\* __search_logs_root: position of the first log with the root, 0 for None
search_logs_root(logs, root) ==
  IF \E i \in 1..Len(logs) : logs[i].root = root
  THEN CHOOSE i \in 1..Len(logs) :
         /\ logs[i].root = root
         /\ \A j \in 1..(i - 1) : logs[j].root # root
  ELSE 0

\* __search_logs_index: position of the first log with the index, 0 for None
search_logs_index(logs, index) ==
  IF \E i \in 1..Len(logs) : logs[i].index = index
  THEN CHOOSE i \in 1..Len(logs) :
         /\ logs[i].index = index
         /\ \A j \in 1..(i - 1) : logs[j].index # index
  ELSE 0

\* what recover_data_from_root hands back: (succ, data), or err when the
\* call does not return
RRet(w, succ, data, err) == [w |-> w, succ |-> succ, data |-> data, err |-> err]

\* recover_data_from_root; depth counts the nested calls, and a nesting
\* beyond MaxDepth ends as Python's RecursionError.  RecoverChildren is the
\* loop "for index in args['_indices']" with data the words gathered so far,
\* and ChildRecovered its step once the nested call has handed back r:
\* "(_, data_at_index) = ...; data += data_at_index"
RECURSIVE recover_data_from_root(_, _, _)
RECURSIVE RecoverChildren(_, _, _, _)
RECURSIVE ChildRecovered(_, _, _, _)
ChildRecovered(r, indices, data, depth) ==
  IF r.err # "" THEN r
  ELSE RecoverChildren([r.w EXCEPT !.miss = @ + (IF r.succ THEN 0 ELSE 1)],
                       Tail(indices), data \o r.data, depth)

RecoverChildren(w, indices, data, depth) ==
  IF indices = <<>> THEN RRet(w, TRUE, data, "")
  ELSE LET pos == search_logs_index(w.logs, Head(indices))
       IN  IF pos = 0
           THEN RecoverChildren([w EXCEPT !.miss = @ + 1], Tail(indices), data,
                                depth)
           ELSE ChildRecovered(
                  recover_data_from_root([w EXCEPT !.deep = Max(@, depth + 1)],
                                         w.logs[pos].root, depth + 1),
                  indices, data, depth)

\* the end of the loop over the children that caches the data without its
\* first word
ChildrenRecovered_short(c, root) ==
  IF c.err # "" THEN c
  ELSE RRet(update_download_progress(
              [c.w EXCEPT !.dcache = Put(@, root, Tail(c.data))]),
            TRUE, c.data, "")

\* "self.download_cache[root] = data" and the return once the loop over the
\* children has ended as c
ChildrenRecovered(c, root) ==
  IF c.err # "" THEN c
  ELSE RRet(update_download_progress(
              [c.w EXCEPT !.dcache = Put(@, root, c.data)]),
            TRUE, c.data, "")

\* recover_data_from_root after __get_all_contract_logs, on the logs of w1
RecoverFromLogs(w1, root, depth) ==
  LET pos == search_logs_root(w1.logs, root)
  IN  IF pos = 0 THEN RRet(w1, FALSE, <<>>, "")
      ELSE IF w1.logs[pos].kind = "MerkleRootCalculatedFromData"
      THEN RRet(update_download_progress(w1), TRUE,
                w1.logs[pos].data
                  \o Repeat(ZeroWord,
                            Pow2(w1.logs[pos].log2Size - log2_bytes_of_word)
                              - Len(w1.logs[pos].data)),
                "")
      ELSE ChildrenRecovered(
             RecoverChildren(w1, w1.logs[pos].indices, <<>>, depth), root)

recover_data_from_root(w, root, depth) ==
  IF depth > MaxDepth THEN RRet(w, FALSE, <<>>, "RecursionError")
  ELSE IF root \in DOMAIN w.dcache
  THEN RRet(update_download_progress(w), TRUE, w.dcache[root], "")
  ELSE RecoverFromLogs(get_all_contract_logs(w), root, depth)

\* f.truncate(size) on the file just written: cuts it, or extends it with
\* zero bytes
truncate(bytes, size) ==
  IF size <= Len(bytes) THEN SubSeq(bytes, 1, size)
  ELSE bytes \o Repeat(NulByte, size - Len(bytes))

\* the file after "bytes_count += f.write(b)" for the words of data and
\* "if(expected_size != bytes_count): f.truncate(expected_size)"
WriteFile(data, expected_size) ==
  IF expected_size # Len(Flatten(data))
  THEN truncate(Flatten(data), expected_size) ELSE Flatten(data)

\* what download_file hands back once recover_data_from_root has ended as r
\* and filename is written or not (write)
Downloaded(r, write, expected_size) ==
  [w |-> r.w, succ |-> r.succ, err |-> r.err,
   bytes_count |-> Len(Flatten(r.data)), written |-> write,
   out |-> IF write THEN WriteFile(r.data, expected_size) ELSE <<>>,
   data |-> r.data]

\* the rest of download_file without the test of succ
Recovered_unchecked(r, expected_size) ==
  Downloaded(r, r.err = "", expected_size)

\* "if(succ):" and the writing of filename, r being what
\* recover_data_from_root has handed back
Recovered(r, expected_size) ==
  Downloaded(r, r.err = "" /\ r.succ, expected_size)

\* download_file that writes and truncates the file without testing succ
download_file_unchecked(w, root) ==
  Recovered_unchecked(recover_data_from_root(w, root, 0), Pow2(w.tree_log2))

\* download_file: (world, value returned, whether filename was written, its
\* bytes)
download_file(w, root) ==
  Recovered(recover_data_from_root(w, root, 0), Pow2(w.tree_log2))

\* ------------------------------------------------------------------------
\* The session
\* ------------------------------------------------------------------------
VARIABLES
  logHistory,              \* contract: the roots registered, with their sizes
  chainLogs,               \* contract: the events emitted, with their blocks
  blockNumber,             \* the chain head
  page_log_2_size,
  tree_log_2_size,
  download_cache,
  submission_blob_cache,
  submission_index_cache,
  download_progress,
  submission_progress,
  recover_count,
  next_block_number,
  logs,
  trace                    \* the calls of the session with what they returned

vars == <<logHistory, chainLogs, blockNumber, page_log_2_size, tree_log_2_size,
          download_cache, submission_blob_cache, submission_index_cache,
          download_progress, submission_progress, recover_count,
          next_block_number, logs, trace>>

\* the (page_log2_size, tree_log2_size) instantiate is given
Configs ==
  {c \in (log2_bytes_of_word..MaxPageLog2) \X (log2_bytes_of_word..MaxTreeLog2) :
     c[1] <= c[2]}

\* the words of the input files: "a0000000"
FileWords ==
  {<<97>> \o Repeat(AsciiZero, bytes_of_word - 1)}

\* the bytes that may follow the last whole word: none, or "a"
FileTails == {<<>>, <<97>>}

Files ==
  {Flatten(ws) \o t :
     ws \in UNION {[1..n -> FileWords] : n \in 0..MaxFileWords},
     t \in FileTails}

\* the world an operation starts in; failAt = k makes the ledger reject the
\* k-th transaction of the operation (0: none)
World(failAt) ==
  [hist |-> logHistory, chain |-> chainLogs, head |-> blockNumber,
   page_log2 |-> page_log_2_size, tree_log2 |-> tree_log_2_size,
   dcache |-> download_cache, blob |-> submission_blob_cache,
   pair |-> submission_index_cache, dprog |-> download_progress,
   sprog |-> submission_progress, rcount |-> recover_count,
   next |-> next_block_number, logs |-> logs,
   calls |-> <<>>, steps |-> <<>>, inv |-> 0, sent |-> 0, failAt |-> failAt,
   miss |-> 0, deep |-> 0]

\* the world right after instantiate(page_log2_size, tree_log2_size) on a
\* fresh chain
FreshWorld(page_log2_size, tree_log2_size) ==
  [hist |-> <<>>, chain |-> <<>>, head |-> 0,
   page_log2 |-> page_log2_size, tree_log2 |-> tree_log2_size,
   dcache |-> EmptyMap, blob |-> EmptyMap, pair |-> EmptyMap, dprog |-> 0,
   sprog |-> 0, rcount |-> 0, next |-> 0, logs |-> <<>>,
   calls |-> <<>>, steps |-> <<>>, inv |-> 0, sent |-> 0, failAt |-> 0,
   miss |-> 0, deep |-> 0]

\* the variables take the fields of the world an operation ends in
Becomes(w) ==
  /\ logHistory' = w.hist
  /\ chainLogs' = w.chain
  /\ blockNumber' = w.head
  /\ page_log_2_size' = w.page_log2
  /\ tree_log_2_size' = w.tree_log2
  /\ download_cache' = w.dcache
  /\ submission_blob_cache' = w.blob
  /\ submission_index_cache' = w.pair
  /\ download_progress' = w.dprog
  /\ submission_progress' = w.sprog
  /\ recover_count' = w.rcount
  /\ next_block_number' = w.next
  /\ logs' = w.logs

\* one entry of trace: the operation, its arguments (file, arg), what it
\* returned (root; succ), whether it returned at all (ok), the file written
\* (written, out), and what it did: the ledger calls, the pair steps, the
\* index sequence submit_file ended with, the one its leaf phase ended with
\* (leaves), the ones its passes started with (passes), the words and the
\* number of bytes recovered,
\* the children skipped, the deepest nesting of the recovery, and the number
\* of events on the chain when it was called
Entry(op, file, arg, root, ok, succ, written, out, r, bytes_count) ==
  [op |-> op, file |-> file, arg |-> arg, root |-> root, ok |-> ok,
   succ |-> succ, written |-> written, out |-> out, calls |-> r.w.calls,
   steps |-> r.w.steps, indices |-> IF op = "submit_file" THEN r.indices ELSE <<>>,
   leaves |-> IF op = "submit_file" THEN r.leaves ELSE <<>>,
   passes |-> IF op = "submit_file" THEN r.passes ELSE <<>>,
   data |-> IF op = "download_file" THEN r.data ELSE <<>>,
   bytes_count |-> bytes_count, miss |-> r.w.miss, deep |-> r.w.deep,
   nchain |-> Len(chainLogs)]

NumOps(op) == Cardinality({i \in 1..Len(trace) : trace[i].op = op})

\* instantiate(page_log2_size, tree_log2_size) on a fresh chain
Init ==
  /\ logHistory = <<>>
  /\ chainLogs = <<>>
  /\ blockNumber = 0
  /\ \E c \in Configs : page_log_2_size = c[1] /\ tree_log_2_size = c[2]
  /\ download_cache = EmptyMap
  /\ submission_blob_cache = EmptyMap
  /\ submission_index_cache = EmptyMap
  /\ download_progress = 0
  /\ submission_progress = 0
  /\ recover_count = 0
  /\ next_block_number = 0
  /\ logs = <<>>
  /\ trace = <<>>

\* the number of transactions submit_file(F) sends when none is rejected
NumTxns(F) == submit_file(World(0), F).w.sent

\* submit_file(F); the ledger rejects the failAt-th transaction of the call,
\* or none of them (failAt = 0)
SubmitFile(F) ==
  /\ NumOps("submit_file") < MaxSubmits /\ Len(trace) < MaxOps
  /\ \E failAt \in 0..NumTxns(F) :
       \E r \in {submit_file(World(failAt), F)} :
           /\ Becomes(r.w)
           /\ trace' = Append(trace,
                          Entry("submit_file", F, <<>>,
                                IF r.ok THEN r.root ELSE <<>>, r.ok, FALSE,
                                FALSE, <<>>, r, 0))

\* the roots a caller may ask for: registered ones, returned ones, bytes(32)
\* and one the ledger has never seen
KnownRoots ==
  {logHistory[i].root : i \in 1..Len(logHistory)}
    \cup {chainLogs[i].root : i \in 1..Len(chainLogs)}
    \cup {trace[i].root : i \in {j \in 1..Len(trace) : trace[j].ok}}
    \cup {ZeroRoot, UnknownRoot}

\* download_file(root, filename)
DownloadFile(root) ==
  /\ NumOps("download_file") < MaxDownloads /\ Len(trace) < MaxOps
  /\ \E r \in {download_file(World(0), root)} :
         /\ Becomes(r.w)
         /\ trace' = Append(trace,
                        Entry("download_file", <<>>, root, <<>>, r.err = "",
                              r.succ, r.written, r.out, r, r.bytes_count))

Next ==
  \/ \E F \in Files : SubmitFile(F)
  \/ \E root \in KnownRoots : DownloadFile(root)

Spec == Init /\ [][Next]_vars

\* ------------------------------------------------------------------------
\* Recovery from a log the client does not control
\* ------------------------------------------------------------------------
\* The events recover_data_from_root walks are whatever eth.getLogs of the
\* connected node answers: SpecLog starts a session on a chain whose log is
\* any short sequence of events, well formed or not (a child index without
\* event, an event among its own children), and downloads from it.
LogIndices == 0..MaxLogIndex

LogRoots == {<<4, i>> : i \in LogIndices}

LogEvents ==
  {[kind |-> "MerkleRootCalculatedFromData", index |-> i, root |-> r,
    log2Size |-> log2_bytes_of_word, data |-> <<ZeroWord>>, indices |-> <<>>,
    block |-> 0] : i \in LogIndices, r \in LogRoots}
  \cup
  {[kind |-> "MerkleRootCalculatedFromHistory", index |-> i, root |-> r,
    log2Size |-> log2_bytes_of_word + 1, data |-> <<>>, indices |-> c,
    block |-> 0] : i \in LogIndices, r \in LogRoots,
                   c \in LogIndices \X LogIndices}

\* the logs of at most MaxLogEvents events, the n-th event in block n
ChainLogs ==
  {[n \in 1..Len(es) |-> [es[n] EXCEPT !.block = n]] :
     es \in UNION {[1..n -> LogEvents] : n \in 0..MaxLogEvents}}

InitLog ==
  /\ logHistory = <<>>
  /\ chainLogs \in ChainLogs
  /\ blockNumber = Len(chainLogs)
  /\ \E c \in Configs : page_log_2_size = c[1] /\ tree_log_2_size = c[2]
  /\ download_cache = EmptyMap
  /\ submission_blob_cache = EmptyMap
  /\ submission_index_cache = EmptyMap
  /\ download_progress = 0
  /\ submission_progress = 0
  /\ recover_count = 0
  /\ next_block_number = 0
  /\ logs = <<>>
  /\ trace = <<>>

NextLog == \E root \in KnownRoots : DownloadFile(root)

SpecLog == InitLog /\ [][NextLog]_vars

\* ------------------------------------------------------------------------
\* The hashing functions on their own
\* ------------------------------------------------------------------------
\* SpecHash calls calculate_root_from_hashes on sequences of word hashes of
\* any length up to MaxHashes, and the local hashing of submit_data_to_logger
\* on pages of whole words; trace keeps the arguments and the results.
Words ==
  {ZeroWord, <<97>> \o Repeat(AsciiZero, bytes_of_word - 1),
   <<98>> \o Repeat(AsciiZero, bytes_of_word - 1)}

HashLeaves == {KeccakWord(w) : w \in Words}

HashSeqs == UNION {[1..n -> HashLeaves] : n \in 0..MaxHashes}

\* the data of a page: at most 2^(page_log2_size - 3) words
PageData ==
  UNION {[1..n -> Words] :
           n \in 1..Pow2(page_log_2_size - log2_bytes_of_word)}

\* calculate_root_from_hashes(hashes)
CalculateRoot(hashes) ==
  /\ Len(trace) < MaxHashCalls
  /\ trace' = Append(trace,
                 [op |-> "calculate_root_from_hashes", arg |-> hashes,
                  root |-> calculate_root_from_hashes(hashes),
                  npasses |-> Passes(hashes)])
  /\ UNCHANGED <<logHistory, chainLogs, blockNumber, page_log_2_size,
                 tree_log_2_size, download_cache, submission_blob_cache,
                 submission_index_cache, download_progress,
                 submission_progress, recover_count, next_block_number, logs>>

\* the local hashing of submit_data_to_logger(data)
HashPage(data) ==
  /\ Len(trace) < MaxHashCalls
  /\ trace' = Append(trace,
                 [op |-> "hash_page", arg |-> data,
                  root |-> LocalPageRoot(data, page_log_2_size),
                  npasses |-> 0])
  /\ UNCHANGED <<logHistory, chainLogs, blockNumber, page_log_2_size,
                 tree_log_2_size, download_cache, submission_blob_cache,
                 submission_index_cache, download_progress,
                 submission_progress, recover_count, next_block_number, logs>>

NextHash ==
  \/ \E hashes \in HashSeqs : CalculateRoot(hashes)
  \/ \E data \in PageData : HashPage(data)

SpecHash == Init /\ [][NextHash]_vars

\* ------------------------------------------------------------------------
\* Properties
\* ------------------------------------------------------------------------
Submits == {i \in 1..Len(trace) : trace[i].op = "submit_file"}

Downloads == {i \in 1..Len(trace) : trace[i].op = "download_file"}

Mutating(c) ==
  c.op \in {"calculateMerkleRootFromData", "calculateMerkleRootFromHistory"}

\* a file that fits the tree of the session
Fits(F) == Len(F) <= Pow2(tree_log_2_size)

\* C1: submit_file(F) called twice in one session returns the same root both
\* times, and that root is the root of the single index left when the
\* aggregation ends.
C1_SubmitTwiceSameRoot ==
  \A i, j \in Submits :
    (i < j /\ trace[i].ok /\ trace[j].ok /\ trace[i].file = trace[j].file)
      => /\ trace[i].root = trace[j].root
         /\ \A k \in {i, j} :
              /\ Len(trace[k].indices) = 1
              /\ trace[k].root = getLogRoot(logHistory, trace[k].indices[1])

\* C2: once submit_file(F) has completed, a second submit_file(F) sends no
\* mutating transaction, whatever the length of F.
C2_SecondSubmitSendsNothing ==
  \A i, j \in Submits :
    (i < j /\ trace[i].ok /\ trace[i].file = trace[j].file)
      => \A k \in 1..Len(trace[j].calls) : ~Mutating(trace[j].calls[k])

\* C3: for a file F that fits the tree, download_file(submit_file(F), out)
\* succeeds and writes exactly the bytes of F.
C3_RoundTrip ==
  \A i \in Submits, j \in Downloads :
    (i < j /\ trace[i].ok /\ Fits(trace[i].file) /\ trace[j].arg = trace[i].root)
      => /\ trace[j].ok /\ trace[j].succ /\ trace[j].written
         /\ trace[j].out = trace[i].file

\* the root and the size the client has to ask isLogAvailable about before
\* it sends the transaction c
ObjectRoot(c) ==
  IF c.op = "calculateMerkleRootFromData"
  THEN LocalPageRoot(c.data, page_log_2_size)
  ELSE calculate_root_from_hashes(
         [x \in 1..Len(c.indices) |-> getLogRoot(logHistory, c.indices[x])])

ObjectSize(c) ==
  IF c.op = "calculateMerkleRootFromData" THEN page_log_2_size
  ELSE c.log2Size + Log2(Len(c.indices))

\* C4: every transaction sent is preceded, in the same submit_*_to_logger
\* call, by an isLogAvailable query for the locally computed root at the size
\* of the object that answered "not registered"; after a query that answers
\* "registered" the call returns the existing index and sends nothing.
C4_QueryBeforeWrite ==
  \A i \in Submits :
    LET calls == trace[i].calls
    IN  \A k \in 1..Len(calls) :
          /\ Mutating(calls[k]) =>
               \E q \in 1..(k - 1) :
                 /\ calls[q].op = "isLogAvailable"
                 /\ calls[q].inv = calls[k].inv
                 /\ ~calls[q].ans
                 /\ calls[q].root = ObjectRoot(calls[k])
                 /\ calls[q].log2Size = ObjectSize(calls[k])
          /\ (calls[k].op = "isLogAvailable" /\ calls[k].ans) =>
               /\ \A m \in 1..Len(calls) :
                    calls[m].inv = calls[k].inv => ~Mutating(calls[m])
               /\ \E m \in (k + 1)..Len(calls) :
                    /\ calls[m].op = "return"
                    /\ calls[m].inv = calls[k].inv
                    /\ calls[m].index = getLogIndex(logHistory, calls[k].root)
                    /\ getLogRoot(logHistory, calls[m].index) = calls[k].root

\* a submit_file that sent a transaction after a "not registered" answer and
\* adopted an index after a "registered" one
C4_Witness ==
  \E i \in Submits :
    /\ \E k \in 1..Len(trace[i].calls) :
         Mutating(trace[i].calls[k]) /\ trace[i].calls[k].ok
    /\ \E k \in 1..Len(trace[i].calls) :
         trace[i].calls[k].op = "isLogAvailable" /\ trace[i].calls[k].ans

\* C5: within one submit_file, an ordered pair of child indices is handed to
\* submit_indices_to_logger at most once, and every later occurrence of the
\* pair gets the index obtained for its first occurrence.
C5_PairSubmittedOnce ==
  \A i \in Submits :
    LET steps == trace[i].steps
    IN  \A s, t \in 1..Len(steps) :
          (s < t /\ steps[s].pair = steps[t].pair)
            => steps[t].src = "cache" /\ steps[t].index = steps[s].index

\* a file of two identical halves that fills the tree, a pair of it sent to
\* submit_indices_to_logger and met again later in the same call
C5_Witness ==
  \E i \in Submits :
    LET F == trace[i].file
        half == Len(F) \div 2
    IN  /\ trace[i].ok
        /\ Len(F) = Pow2(tree_log_2_size)
        /\ SubSeq(F, 1, half) = SubSeq(F, half + 1, Len(F))
        /\ \E s, t \in 1..Len(trace[i].steps) :
             /\ s < t
             /\ trace[i].steps[s].pair = trace[i].steps[t].pair
             /\ trace[i].steps[s].src = "call"

\* the ledger held no event for the root when download i was called
NoEventFor(i) ==
  \A n \in 1..trace[i].nchain : chainLogs[n].root # trace[i].arg

\* C6: download_file of a root the ledger history has no event for returns
\* False, writes no file and does not raise.
C6_UnknownRootIsNotFound ==
  \A i \in Downloads :
    NoEventFor(i) => trace[i].ok /\ ~trace[i].succ /\ ~trace[i].written

\* a download of a root without event, on a ledger that holds other roots
C6_Witness ==
  \E i \in Downloads :
    NoEventFor(i) /\ trace[i].nchain > 0 /\ ~trace[i].succ

\* the dedup caches agree with the ledger
C7_CachesConsistent ==
  /\ \A d \in DOMAIN submission_blob_cache :
       getLogRoot(logHistory, submission_blob_cache[d])
         = LedgerPageRoot(d, page_log_2_size)
  /\ \A p \in DOMAIN submission_index_cache :
       getLogRoot(logHistory, submission_index_cache[p])
         = KeccakPair(getLogRoot(logHistory, p[1]), getLogRoot(logHistory, p[2]))

\* a step that is a submit_file ended by a rejected transaction: the rejected
\* transaction is its last ledger call, its page or pair is not cached, and
\* no cache entry is lost or changed
C7_AbortStep ==
  (Len(trace') = Len(trace) + 1 /\ trace'[Len(trace')].op = "submit_file"
     /\ ~trace'[Len(trace')].ok)
    => LET calls == trace'[Len(trace')].calls
           f == calls[Len(calls)]
       IN  /\ Mutating(f) /\ ~f.ok
           /\ \A k \in 1..(Len(calls) - 1) : calls[k].ok
           /\ f.op = "calculateMerkleRootFromData"
                => f.data \notin DOMAIN submission_blob_cache'
           /\ f.op = "calculateMerkleRootFromHistory"
                => f.indices \notin DOMAIN submission_index_cache'
           /\ \A d \in DOMAIN submission_blob_cache :
                /\ d \in DOMAIN submission_blob_cache'
                /\ submission_blob_cache'[d] = submission_blob_cache[d]
           /\ \A q \in DOMAIN submission_index_cache :
                /\ q \in DOMAIN submission_index_cache'
                /\ submission_index_cache'[q] = submission_index_cache[q]

\* C7: a rejected transaction stops submit_file at that step, adds no cache
\* entry for the failing page or pair and keeps the earlier entries; and at
\* all times every blob cache entry maps a page to the index the ledger holds
\* for the page's root and every pair cache entry (i, j) -> k has
\* root(k) = H(root(i) || root(j)).
C7_AbortKeepsCachesConsistent == [][C7_AbortStep]_vars /\ []C7_CachesConsistent

\* C8: download_file never extends: when fewer bytes than 2^tree_log2_size
\* are recovered for a root that was found, the call does not succeed with
\* an output file.
C8_NeverExtends ==
  \A i \in Downloads :
    (~NoEventFor(i) /\ trace[i].bytes_count < Pow2(tree_log_2_size))
      => ~(trace[i].ok /\ trace[i].succ /\ trace[i].written)

\* C9: when a child index of an aggregation event has no event in the log,
\* or a child root resolves to not-found, download_file does not return
\* success with data that leaves the child's bytes out.
C9_MissingChildPropagates ==
  \A i \in Downloads : trace[i].miss > 0 => ~(trace[i].ok /\ trace[i].succ)

\* C10: a word read short at the end of the file is hashed locally as the
\* chunk right-padded with 0x00, so that the local page root is the root the
\* ledger computes for the page submitted.
C10_LocalRootIsLedgerRoot ==
  \A i \in Submits :
    \A k \in 1..Len(trace[i].calls) :
      LET c == trace[i].calls[k]
      IN  (c.op = "calculateMerkleRootFromData" /\ c.ok)
            => /\ \A x \in 1..Len(c.data) :
                    PadWordLocal(c.data[x])
                      = c.data[x] \o Repeat(NulByte, bytes_of_word - Len(c.data[x]))
               /\ LocalPageRoot(c.data, page_log_2_size) = c.root

\* C11: when a submit_*_to_logger call sends a transaction, the root the
\* ledger hands back is compared with the root computed locally: a call whose
\* ledger root differs from its local root does not return the (index, root)
\* of the ledger as its result.
C11_LedgerRootCrossChecked ==
  \A i \in Submits :
    LET calls == trace[i].calls
    IN  \A k \in 1..Len(calls) :
          (Mutating(calls[k]) /\ calls[k].ok
             /\ calls[k].root # ObjectRoot(calls[k]))
            => ~\E m \in (k + 1)..Len(calls) :
                  /\ calls[m].op = "return"
                  /\ calls[m].inv = calls[k].inv
                  /\ calls[m].root = calls[k].root

\* the words of a file as the ledger holds them: the chunks read, a short
\* last one right-padded with 0x00
WordsOf(F) ==
  [i \in 1..Len(bytes_from_file(F)) |-> AbiBytes8(bytes_from_file(F)[i])]

\* the k-th page of 2^(p - 3) words of the file zero-padded to the tree of
\* 2^(t - 3) words
PageOf(F, p, t, k) ==
  LET nwords == Pow2(p - log2_bytes_of_word)
      padded == WordsOf(F)
                  \o Repeat(ZeroWord,
                            Pow2(t - log2_bytes_of_word) - Len(WordsOf(F)))
  IN  SubSeq(padded, (k - 1) * nwords + 1, k * nwords)

\* the leaf indices are those of pages that hold the words of the file, in
\* file order
LeavesHoldFile(hist, leaves, F, p, t) ==
  /\ Len(leaves) = Pow2(t - p)
  /\ \A k \in 1..Len(leaves) :
       getLogRoot(hist, leaves[k]) = LedgerPageRoot(PageOf(F, p, t, k), p)

\* submit i completed for a file that fits, with leaf indices of pages that
\* hold the words of the file
HoldsFile(i) ==
  /\ trace[i].ok /\ Fits(trace[i].file)
  /\ LeavesHoldFile(logHistory, trace[i].leaves, trace[i].file,
                    page_log_2_size, tree_log_2_size)

\* submit_file of the file of submit i on a fresh Logger of page size 2^p and
\* the tree size of the session
AtPageSize(i, p) == submit_file(FreshWorld(p, tree_log_2_size), trace[i].file)

\* C12: for the same words and the same tree size the tree root does not
\* depend on the page size: aggregating the indices of the pages that hold
\* the words at another page size ends with an index of the same root.
C12_RootIndependentOfPageSize ==
  \A i \in Submits :
    HoldsFile(i) =>
      \A p \in log2_bytes_of_word..tree_log_2_size :
        (AtPageSize(i, p).ok
           /\ LeavesHoldFile(AtPageSize(i, p).w.hist, AtPageSize(i, p).leaves,
                             trace[i].file, p, tree_log_2_size))
          => /\ Len(trace[i].indices) = 1
             /\ Len(AtPageSize(i, p).indices) = 1
             /\ getLogRoot(AtPageSize(i, p).w.hist, AtPageSize(i, p).indices[1])
                  = getLogRoot(logHistory, trace[i].indices[1])

\* a file whose pages differ, submitted at a page size of two words with
\* several pages, and aggregated from twice as many pages at one word a page
C12_Witness ==
  \E i \in Submits :
    /\ HoldsFile(i)
    /\ page_log_2_size = log2_bytes_of_word + 1
    /\ Len(trace[i].leaves) > 1
    /\ trace[i].leaves[1] # trace[i].leaves[2]
    /\ LeavesHoldFile(AtPageSize(i, log2_bytes_of_word).w.hist,
                      AtPageSize(i, log2_bytes_of_word).leaves,
                      trace[i].file, log2_bytes_of_word, tree_log_2_size)
    /\ Len(AtPageSize(i, log2_bytes_of_word).leaves) = 2 * Len(trace[i].leaves)

HashCalls == {i \in 1..Len(trace) : trace[i].op = "calculate_root_from_hashes"}

PageHashes == {i \in 1..Len(trace) : trace[i].op = "hash_page"}

IsPowerOfTwo(n) == n >= 1 /\ n = Pow2(Log2(n))

Swap(s, x, y) == [s EXCEPT ![x] = s[y], ![y] = s[x]]

\* the words of a page as they are hashed: data and the zero words after it
PaddedPage(data) ==
  data \o Repeat(ZeroWord,
                 Pow2(page_log_2_size - log2_bytes_of_word) - Len(data))

\* C13: hashing is sensitive to order: exchanging two different hashes of a
\* sequence of 2^n hashes changes the root calculate_root_from_hashes
\* returns, for two hashes [a, b] in particular, and exchanging two
\* different words of a page changes the root of the page.
C13_OrderSensitive ==
  /\ \A i \in HashCalls :
       IsPowerOfTwo(Len(trace[i].arg)) =>
         \A x, y \in 1..Len(trace[i].arg) :
           trace[i].arg[x] # trace[i].arg[y]
             => calculate_root_from_hashes(Swap(trace[i].arg, x, y))
                  # trace[i].root
  /\ \A i \in PageHashes :
       \A x, y \in 1..Len(PaddedPage(trace[i].arg)) :
         PaddedPage(trace[i].arg)[x] # PaddedPage(trace[i].arg)[y]
           => LocalPageRoot(Swap(PaddedPage(trace[i].arg), x, y),
                            page_log_2_size)
                # trace[i].root

\* a call on two different hashes, or the hashing of a page of two
\* different words
C13_Witness ==
  \/ \E i \in HashCalls :
       Len(trace[i].arg) = 2 /\ trace[i].arg[1] # trace[i].arg[2]
  \/ \E i \in PageHashes :
       Len(trace[i].arg) = 2 /\ trace[i].arg[1] # trace[i].arg[2]

\* C14: the submission progress counter never decreases and stays within
\* 0..100, over any sequence of submit_file calls, repeated ones and files
\* longer than the tree included.
C14_SubmissionProgressMonotone ==
  /\ [][submission_progress' >= submission_progress]_vars
  /\ [](submission_progress >= 0 /\ submission_progress <= 100)

\* C15: the download progress counter never decreases and stays within
\* 0..100, over any sequence of download_file calls, several in one session
\* included; it moves with the nodes resolved, once for each.
C15_DownloadProgressMonotone ==
  /\ [][/\ download_progress' >= download_progress
        /\ recover_count' >= recover_count]_vars
  /\ [](download_progress >= 0 /\ download_progress <= 100)

\* the root of the balanced binary tree over 2^n hashes: a single hash is
\* its own root, and a parent is the hash of the root of the earlier half
\* followed by the root of the later half
RECURSIVE MerkleRoot(_)
MerkleRoot(hs) ==
  IF Len(hs) = 1 THEN hs[1]
  ELSE KeccakPair(MerkleRoot(SubSeq(hs, 1, Len(hs) \div 2)),
                  MerkleRoot(SubSeq(hs, Len(hs) \div 2 + 1, Len(hs))))

\* the Merkle root of the pages of the file zero-padded to the tree of
\* 2^(t - 3) words
FileMerkleRoot(F, p, t) ==
  MerkleRoot([k \in 1..Pow2(t - p) |-> LedgerPageRoot(PageOf(F, p, t, k), p)])

\* the pair steps of submit i made at index_log2_size = level, in order
StepsAt(i, level) == SelectSeq(trace[i].steps, LAMBDA s : s.level = level)

\* the indices pass k of submit i ended with
PassResult(i, k) ==
  IF k < Len(trace[i].passes) THEN trace[i].passes[k + 1] ELSE trace[i].indices

\* pass k of submit i pairs the indices it starts with two by two from the
\* left, at child size page_log_2_size + k - 1, and ends with the indices
\* obtained for the pairs
PassInOrder(i, k) ==
  LET start == trace[i].passes[k]
      level == page_log_2_size + k - 1
      made == StepsAt(i, level)
  IN  /\ Len(start) = Pow2(tree_log_2_size - level)
      /\ Len(made) = Len(start) \div 2
      /\ \A m \in 1..Len(made) :
           /\ made[m].pair = <<start[2 * m - 1], start[2 * m]>>
           /\ PassResult(i, k)[m] = made[m].index
      /\ Len(PassResult(i, k)) = Len(made)

\* every calculateMerkleRootFromHistory of submit i declares the size of the
\* pass that sent it, for the pair of one of its steps
DeclaresChildSize(i) ==
  \A c \in 1..Len(trace[i].calls) :
    trace[i].calls[c].op = "calculateMerkleRootFromHistory"
      => \E s \in 1..Len(trace[i].steps) :
           /\ trace[i].steps[s].pair = trace[i].calls[c].indices
           /\ trace[i].steps[s].level = trace[i].calls[c].log2Size

\* C16: for a file that fits the tree the aggregation loop of submit_file
\* makes tree_log2_size - page_log2_size passes, pass k pairing the indices
\* two by two from the left at child size page_log2_size + k; it ends with
\* one index, whose ledger root is the balanced binary Merkle root of the
\* zero-padded pages of the file in file order.
C16_AggregationLevels ==
  \A i \in Submits :
    (trace[i].ok /\ Fits(trace[i].file))
      => /\ Len(trace[i].passes) = tree_log_2_size - page_log_2_size
         /\ \A k \in 1..Len(trace[i].passes) : PassInOrder(i, k)
         /\ DeclaresChildSize(i)
         /\ Len(trace[i].indices) = 1
         /\ getLogRoot(logHistory, trace[i].indices[1])
              = FileMerkleRoot(trace[i].file, page_log_2_size, tree_log_2_size)

\* the number of pages the chunks of the file fill, the last one maybe in part
RealPages(F, p) ==
  (Len(bytes_from_file(F)) + Pow2(p - log2_bytes_of_word) - 1)
    \div Pow2(p - log2_bytes_of_word)

\* C17: for every input file, the empty one included, the leaf phase of
\* submit_file ends with exactly 2^(tree_log2_size - page_log2_size) indices:
\* those of the pages of the file in file order, then the index of the
\* all-zero page up to the capacity.
C17_LeafCountIsCapacity ==
  \A i \in Submits :
    trace[i].ok
      => /\ Len(trace[i].leaves) = Pow2(tree_log_2_size - page_log_2_size)
         /\ \A k \in 1..Len(trace[i].leaves) :
              getLogRoot(logHistory, trace[i].leaves[k])
                = IF k <= RealPages(trace[i].file, page_log_2_size)
                  THEN LedgerPageRoot(PageOf(trace[i].file, page_log_2_size,
                                             tree_log_2_size, k),
                                      page_log_2_size)
                  ELSE LedgerPageRoot(<<ZeroWord>>, page_log_2_size)

Odd(n) == n % 2 = 1

\* the lengths of the sequences the passes of calculate_root_from_hashes
\* start with
RECURSIVE PassLengths(_)
PassLengths(hashes) ==
  IF Len(hashes) > 1 THEN <<Len(hashes)>> \o PassLengths(PairPass(hashes))
  ELSE <<>>

\* C18: a pass of the aggregation loop of submit_file, or of
\* calculate_root_from_hashes, that starts with an odd number of elements
\* greater than one is an error: the operation does not go on to return a
\* root computed without the unpaired last element.
C18_OddCountIsAnError ==
  /\ \A i \in Submits :
       (\E k \in 1..Len(trace[i].passes) :
          Odd(Len(trace[i].passes[k])) /\ Len(trace[i].passes[k]) > 1)
         => ~trace[i].ok
  /\ \A i \in HashCalls :
       (\E k \in 1..Len(PassLengths(trace[i].arg)) :
          Odd(PassLengths(trace[i].arg)[k]))
         => trace[i].root = <<>>

\* C19: on a sequence of 2^n hashes calculate_root_from_hashes ends after
\* exactly n passes and returns the root of the balanced binary tree over the
\* sequence, each parent being H(left || right) with left the earlier
\* element; a sequence of one hash is returned as it is.
C19_BalancedTreeRoot ==
  \A i \in HashCalls :
    IsPowerOfTwo(Len(trace[i].arg))
      => /\ trace[i].npasses = Log2(Len(trace[i].arg))
         /\ Pow2(trace[i].npasses) = Len(trace[i].arg)
         /\ trace[i].root = MerkleRoot(trace[i].arg)
         /\ Len(trace[i].arg) = 1 => trace[i].root = trace[i].arg[1]

\* a call on four hashes, not all the same, that took two passes
C19_Witness ==
  \E i \in HashCalls :
    /\ Len(trace[i].arg) = 4
    /\ trace[i].arg[1] # trace[i].arg[2]
    /\ trace[i].arg[3] # trace[i].arg[4]
    /\ trace[i].npasses = 2

\* C20: recover_data_from_root ends on every finite log, a malformed or
\* cyclic one included: it nests no deeper than tree_log2_size -
\* page_log2_size calls below the first, and does not recurse until the
\* interpreter gives up.
C20_RecursionBounded ==
  \A i \in Downloads :
    /\ trace[i].deep <= tree_log_2_size - page_log_2_size
    /\ trace[i].ok

\* the words recover_data_from_root gives for the root when the download
\* cache is empty, on the log of the current state
Uncached(root) ==
  recover_data_from_root([World(0) EXCEPT !.dcache = EmptyMap], root, 0)

\* the words of the children of an aggregation event, recovered without the
\* cache and joined in the order of _indices
RECURSIVE ChildrenData(_)
ChildrenData(indices) ==
  IF indices = <<>> THEN <<>>
  ELSE Uncached(chainLogs[search_logs_index(chainLogs, Head(indices))].root).data
         \o ChildrenData(Tail(indices))

\* every entry of download_cache has the root of an aggregation event for
\* key and the joined data of the children of that event for value
C21_CacheHoldsChildren ==
  \A root \in DOMAIN download_cache :
    /\ search_logs_root(chainLogs, root) # 0
    /\ chainLogs[search_logs_root(chainLogs, root)].kind
         = "MerkleRootCalculatedFromHistory"
    /\ download_cache[root]
         = ChildrenData(chainLogs[search_logs_root(chainLogs, root)].indices)

\* a step that is a download_file hands back what the recovery gives when
\* it starts from an empty download cache
C21_DownloadStep ==
  (Len(trace') = Len(trace) + 1 /\ trace'[Len(trace')].op = "download_file")
    => /\ trace'[Len(trace')].ok = (Uncached(trace'[Len(trace')].arg).err = "")
       /\ trace'[Len(trace')].succ = Uncached(trace'[Len(trace')].arg).succ
       /\ trace'[Len(trace')].data = Uncached(trace'[Len(trace')].arg).data

\* C21: the download cache is pure memoization: on the log of the ledger,
\* recover_data_from_root returns the same (success, data) whether the cache
\* is empty or filled by the earlier recoveries of the session, and every
\* cached entry is keyed by the root of an aggregation event and holds the
\* data of its children joined in order.
C21_CacheIsMemoization == [][C21_DownloadStep]_vars /\ []C21_CacheHoldsChildren

\* two downloads of the same aggregation root, the second one answered from
\* the entry the first one cached
C21_Witness ==
  \E i, j \in Downloads :
    /\ i < j
    /\ trace[i].arg = trace[j].arg
    /\ trace[i].succ /\ trace[j].succ
    /\ trace[j].arg \in DOMAIN download_cache
    /\ trace[j].data # <<>>

\* the cached logs are those of the blocks below next_block_number, each
\* once and in block order, and no block beyond the head counts as fetched
C22_LogsAreFetchedBlocks ==
  /\ logs = getLogs(chainLogs, 0, next_block_number - 1)
  /\ next_block_number <= blockNumber + 1

\* the loop of __get_all_contract_logs run from the cache of the current
\* state with a block step so small that it takes several rounds ends with
\* the logs of every block up to the head, each once and in block order
C22_RoundsJoin ==
  \A step \in 1..MaxBlockStep :
    /\ FetchLoopBy(World(0), next_block_number, blockNumber, step).logs
         = getLogs(chainLogs, 0, blockNumber)
    /\ next_block_number <= blockNumber
         => FetchLoopBy(World(0), next_block_number, blockNumber, step).next
              = blockNumber + 1

\* a step that is a download_file of a root not in download_cache, which
\* calls __get_all_contract_logs, leaves the logs of every block up to the
\* head in the cache and next_block_number right after the head
C22_FetchStep ==
  (Len(trace') = Len(trace) + 1 /\ trace'[Len(trace')].op = "download_file"
     /\ trace'[Len(trace')].arg \notin DOMAIN download_cache)
    => /\ logs' = getLogs(chainLogs, 0, blockNumber)
       /\ next_block_number' = blockNumber + 1
       /\ \A n \in 1..Len(logs) : logs'[n] = logs[n]

\* C22: over any sequence of __get_all_contract_logs calls on a chain whose
\* head only grows, the cached log list holds the logs of every block from 0
\* to the head of the last call exactly once and in block order, and
\* next_block_number is the last fetched block + 1.
C22_IncrementalFetch ==
  /\ [][C22_FetchStep]_vars
  /\ []C22_LogsAreFetchedBlocks
  /\ []C22_RoundsJoin

\* a download on the empty chain, a submit_file that grows it, and a
\* download that fetched the new blocks only
C22_Witness ==
  /\ Len(trace) = 3
  /\ trace[1].op = "download_file" /\ trace[1].nchain = 0
  /\ trace[2].op = "submit_file"
  /\ trace[3].op = "download_file" /\ trace[3].nchain > 0
  /\ Len(logs) = trace[3].nchain
  /\ next_block_number = blockNumber + 1
  /\ next_block_number > 1

\* C23: when submit_file has returned normally for a file that fits the
\* tree, the submission progress counter is 100, in every configuration,
\* tree_log2_size = page_log2_size included.
C23_ProgressIs100OnReturn ==
  (Len(trace) > 0 /\ trace[Len(trace)].op = "submit_file"
     /\ trace[Len(trace)].ok /\ Fits(trace[Len(trace)].file))
    => submission_progress = 100

====
